---- MODULE Spec2Model ----
(***************************************************************************)
(* Journal (src/journal.py): the entry storage and mutation engine.        *)
(*                                                                         *)
(*   JournalStorage     load_entries / save_entries on one file            *)
(*   JournalModel       the in-memory list of entries                      *)
(*   JournalController  validation in front of the model                   *)
(*   JournalView        the edit window and the position it keeps          *)
(*                                                                         *)
(* Strings are sequences of one-character strings, so that str.strip()     *)
(* is computed.  A file is [exists, text, complete, array]: text is the    *)
(* sequence of serialized objects written so far, complete says that the   *)
(* JSON document was written to its end, i.e. that json.load parses it,    *)
(* and array that the document is an array of the objects (what json.dump  *)
(* of a list writes) and not one object alone.  Positions are 0-based as   *)
(* in the source; TLA+ sequences are 1-based, so list element i of the     *)
(* source is es[i + 1].                                                    *)
(*                                                                         *)
(* A mutating handler is one run of the source from the controller's       *)
(* entry to its return.  save_entries is modelled statement by statement   *)
(* (pc), because the file system is observable between its statements; no  *)
(* other handler can run until it has returned (Tk runs one callback at a  *)
(* time), only the process can die.                                        *)
(***************************************************************************)
EXTENDS Integers, Sequences, FiniteSets, TLC

\* ------------------------------------------------------------------ bounds
MaxLen == 2          \* add is offered while the list is shorter than this
MaxIds == 3          \* uuid4 draws in one behaviour
MaxFaults == 1       \* I/O failures and process deaths in one behaviour
MaxCalls == 3        \* controller calls in one behaviour where they are counted

\* ------------------------------------------------------------------ inputs
Whitespace == {" ", "\n"}
\* What the caller passes as (title, content).
Requests ==
    { [title |-> <<>>, content |-> <<"x">>],
      [title |-> <<" ">>, content |-> <<>>],
      [title |-> <<" ", "a">>, content |-> <<" ", "x">>],
      [title |-> <<"B", "\n">>, content |-> <<>>] }
Times == {1, 2}
\* What the caller passes to search.
Keywords ==
    { <<>>, <<" ">>, <<"A", " ">>, <<"c", "A", "t">>, <<"t", "d">> }
\* The letters of the inputs that str.lower() changes, with what it makes
\* of them.
CasePairs ==
    { <<"A", "a">>, <<"B", "b">>, <<"C", "c">>, <<"T", "t">> }
Indexes == (0 - 1)..MaxLen

\* ------------------------------------------------------------------ str
\* `if not title:` in place of `if not title.strip():`
strip_none(s) == s

RECURSIVE lstrip(_)
lstrip(s) ==
    IF s # <<>> /\ Head(s) \in Whitespace THEN lstrip(Tail(s)) ELSE s

RECURSIVE rstrip(_)
rstrip(s) ==
    IF s # <<>> /\ s[Len(s)] \in Whitespace
    THEN rstrip(SubSeq(s, 1, Len(s) - 1))
    ELSE s

strip(s) == rstrip(lstrip(s))

\* A comparison that keeps the case: `keyword in entry["title"]`
lower_none(s) == s

\* str.lower()
lower(s) ==
    [i \in 1..Len(s) |->
        IF \E p \in CasePairs : p[1] = s[i]
        THEN (CHOOSE p \in CasePairs : p[1] = s[i])[2]
        ELSE s[i]]

\* `if keyword and keyword in text`: an empty keyword finds nothing.
contains_nonempty(needle, hay) ==
    /\ needle # <<>>
    /\ \E k \in 0..(Len(hay) - Len(needle)) :
        SubSeq(hay, k + 1, k + Len(needle)) = needle

\* `needle in hay` on str
RECURSIVE contains(_, _)
contains(needle, hay) ==
    IF Len(needle) > Len(hay) THEN FALSE
    ELSE IF SubSeq(hay, 1, Len(needle)) = needle THEN TRUE
    ELSE contains(needle, Tail(hay))

\* ------------------------------------------------------------------ json
json_dump(es) ==
    [i \in 1..Len(es) |->
        <<es[i].unique_id, es[i].entry_number, es[i].title,
          es[i].content, es[i].date_time>>]

\* A load that builds the list back to front.
json_load_reversed(text) ==
    [i \in 1..Len(text) |->
        [unique_id |-> text[Len(text) + 1 - i][1],
         entry_number |-> text[Len(text) + 1 - i][2],
         title |-> text[Len(text) + 1 - i][3],
         content |-> text[Len(text) + 1 - i][4],
         date_time |-> text[Len(text) + 1 - i][5]]]

json_load(text) ==
    [i \in 1..Len(text) |->
        [unique_id |-> text[i][1], entry_number |-> text[i][2],
         title |-> text[i][3], content |-> text[i][4],
         date_time |-> text[i][5]]]

NoFile ==
    [exists |-> FALSE, text |-> <<>>, complete |-> FALSE, array |-> TRUE]

WrittenFile(es) ==
    [exists |-> TRUE, text |-> json_dump(es), complete |-> TRUE,
     array |-> TRUE]

\* A file that holds one JSON object, not a list: json.load makes a dict of it.
ObjectFile(e) ==
    [exists |-> TRUE, text |-> json_dump(<<e>>), complete |-> TRUE,
     array |-> FALSE]

\* What NamedTemporaryFile holds after k of the objects were written.
PartialFile(es, k) ==
    [exists |-> TRUE, text |-> SubSeq(json_dump(es), 1, k), complete |-> FALSE,
     array |-> TRUE]

\* ------------------------------------------------------------------ state
VARIABLES
    entries,        \* JournalModel.entries
    file,           \* the file at JournalStorage.filename
    temp,           \* the file NamedTemporaryFile created in this save
    temp_filename,  \* save_entries' local: TRUE once it holds tf.name
    save_error,     \* save_entries reached its except clause (log + dialog)
    load_report,    \* what load_entries reported: "none", "corrupted", "failed"
    pc,             \* position of the running handler
    call,           \* the controller call that ran last or is running
    nextId,         \* uuid4: the next identifier never drawn before
    faults,         \* I/O failures and process deaths so far
    save_old,       \* history: the file as it was when the running call began
    edit_window     \* the view's edit window: its model_index and the entry shown

vars == <<entries, file, temp, temp_filename, save_error, load_report,
          pc, call, nextId, faults, save_old, edit_window>>

\* No edit window is open.
NoWindow == [open |-> FALSE, model_index |-> 0, unique_id |-> 0]

\* call: the operation, its arguments as the caller passed them, what it
\* returned or raised, and two totals: the controller calls made (calls) and
\* the calls of save_entries among them (saves).
NoCall ==
    [op |-> "none", index |-> 0, title |-> <<>>, content |-> <<>>,
     keyword |-> <<>>, result |-> <<>>, ret |-> "none", saves |-> 0, calls |-> 0]

NoRequest == [title |-> <<>>, content |-> <<>>]

\* The call that starts now.
NewCall(op, index, req, ret) ==
    [op |-> op, index |-> index, title |-> req.title, content |-> req.content,
     keyword |-> <<>>, result |-> <<>>, ret |-> ret,
     saves |-> call.saves, calls |-> call.calls + 1]

\* Files an earlier session of the program left: none, one cut short (it does
\* not parse), or the dump of a one-entry list.
OldEntry ==
    [unique_id |-> 1, entry_number |-> 1, title |-> <<"a">>,
     content |-> <<>>, date_time |-> 1]

CorruptFile == PartialFile(<<OldEntry>>, 1)

InitFiles == {NoFile, CorruptFile, WrittenFile(<<OldEntry>>)}

Init ==
    /\ entries = <<>>
    /\ file \in InitFiles
    /\ temp = NoFile
    /\ temp_filename = FALSE
    /\ save_error = FALSE
    /\ load_report = "none"
    /\ pc = "boot"
    /\ call = NoCall
    /\ nextId = IF file = NoFile THEN 1 ELSE 2
    /\ faults = 0
    /\ save_old = file
    /\ edit_window = NoWindow

\* ------------------------------------------------------------------ JournalStorage.load_entries
\* A load that keeps what it could read of a file that does not parse.
load_entries_lenient(f, io_error) ==
    IF ~f.exists THEN [entries |-> <<>>, report |-> "none"]
    ELSE IF io_error THEN [entries |-> <<>>, report |-> "failed"]
    ELSE [entries |-> json_load(f.text),
          report |-> IF f.complete THEN "none" ELSE "corrupted"]

\* What json.load returns is returned as it is: the list of an array, the
\* dict of an object.
load_entries(f, io_error) ==
    IF ~f.exists THEN [entries |-> <<>>, report |-> "none"]
    ELSE IF io_error THEN [entries |-> <<>>, report |-> "failed"]
    ELSE IF ~f.complete THEN [entries |-> <<>>, report |-> "corrupted"]
    ELSE IF ~f.array THEN [entries |-> json_load(f.text)[1], report |-> "none"]
    ELSE [entries |-> json_load(f.text), report |-> "none"]

\* main(): JournalModel.__init__ loads the list.
JournalModel_init ==
    /\ pc = "boot"
    /\ \E io_error \in BOOLEAN :
        /\ io_error => (file.exists /\ faults < MaxFaults)
        /\ entries' = load_entries(file, io_error).entries
        /\ load_report' = load_entries(file, io_error).report
        /\ faults' = IF io_error THEN faults + 1 ELSE faults
    /\ pc' = "idle"
    /\ UNCHANGED <<file, temp, temp_filename, save_error, call, nextId, save_old>>
    /\ UNCHANGED edit_window

\* ------------------------------------------------------------------ JournalModel
\* `index < len(self.entries)` in place of `0 <= index < len(self.entries)`
InRange_no_lower(index, es) == index < Len(es)

InRange(index, es) == 0 <= index /\ index < Len(es)

\* `self.entries.insert(0, new_entry)` in place of append
add_entry_first(es, title, content, now, uid) ==
    <<[unique_id |-> uid, entry_number |-> Len(es) + 1,
       title |-> title, content |-> content, date_time |-> now]>> \o es

JournalModel_add_entry(es, title, content, now, uid) ==
    Append(es, [unique_id |-> uid, entry_number |-> Len(es) + 1,
                title |-> title, content |-> content, date_time |-> now])

\* update_entry without `self.entries[index]["content"] = content`
update_entry_keeps_content(es, index, title, content, now) ==
    IF 0 <= index /\ index < Len(es)
    THEN [ret |-> TRUE,
          entries |-> [es EXCEPT ![index + 1].title = title,
                                 ![index + 1].date_time = now]]
    ELSE [ret |-> FALSE, entries |-> es]

\* update_entry that stamps date_time on every entry of the list
update_entry_stamps_all(es, index, title, content, now) ==
    IF 0 <= index /\ index < Len(es)
    THEN [ret |-> TRUE,
          entries |->
              [i \in 1..Len(es) |->
                  IF i = index + 1
                  THEN [es[i] EXCEPT !.title = title, !.content = content,
                                     !.date_time = now]
                  ELSE [es[i] EXCEPT !.date_time = now]]]
    ELSE [ret |-> FALSE, entries |-> es]

JournalModel_update_entry(es, index, title, content, now) ==
    IF InRange(index, es)
    THEN [ret |-> TRUE,
          entries |-> [es EXCEPT ![index + 1].title = title,
                                 ![index + 1].content = content,
                                 ![index + 1].date_time = now]]
    ELSE [ret |-> FALSE, entries |-> es]

\* `self.entries.pop()` in place of `self.entries.pop(index)`
pop_last(es, index) == SubSeq(es, 1, Len(es) - 1)

pop(es, index) ==
    [i \in 1..(Len(es) - 1) |-> IF i <= index THEN es[i] ELSE es[i + 1]]

\* delete_entry without its renumbering loop
renumber_skipped(es) == es

renumber(es) ==
    [i \in 1..Len(es) |-> [es[i] EXCEPT !.entry_number = i]]

JournalModel_delete_entry(es, index) ==
    IF InRange(index, es)
    THEN [ret |-> TRUE, entries |-> renumber(pop(es, index))]
    ELSE [ret |-> FALSE, entries |-> es]

\* search_entries: the (idx, entry) pairs of enumerate(self.entries) whose
\* title or content holds the keyword, compared in lower case.
JournalModel_search_entries(es, keyword) ==
    LET keyword_lower == lower(keyword)
        enumerate == [i \in 1..Len(es) |-> <<i - 1, es[i]>>]
        Found(pair) ==
            \/ contains(keyword_lower, lower(pair[2].title))
            \/ contains(keyword_lower, lower(pair[2].content))
    IN  SelectSeq(enumerate, Found)

\* An identifier derived from the list length in place of a fresh one.
uuid4_from_length == Len(entries) + 1

uuid4 == nextId

\* ------------------------------------------------------------------ JournalStorage.save_entries
\* A model method that returns without `self.storage.save_entries(...)`.
EnterSave_skipped(c) ==
    /\ pc' = "return"
    /\ temp' = NoFile
    /\ temp_filename' = FALSE
    /\ save_error' = FALSE
    /\ call' = c

\* The call c calls save_entries: temp_filename = None, and the try block is
\* entered.
EnterSave(c) ==
    /\ pc' = "create"
    /\ temp' = NoFile
    /\ temp_filename' = FALSE
    /\ save_error' = FALSE
    /\ call' = [c EXCEPT !.saves = @ + 1]

SavePcs == {"create", "write", "writing", "move", "except", "finally", "return"}

\* `open(self.filename, "w")` in place of a temporary file: the target is
\* truncated when the write begins.
open_target ==
    /\ pc = "create"
    /\ file' = PartialFile(entries, 0)
    /\ temp' = PartialFile(entries, 0)
    /\ temp_filename' = TRUE
    /\ pc' = "write"
    /\ UNCHANGED <<entries, save_error, load_report, call, nextId, faults, save_old>>
    /\ UNCHANGED edit_window

\* tempfile.NamedTemporaryFile("w", delete=False, dir=dir_name)
NamedTemporaryFile ==
    /\ pc = "create"
    /\ \/ /\ temp' = PartialFile(entries, 0)
          /\ temp_filename' = TRUE
          /\ pc' = "write"
          /\ UNCHANGED faults
       \/ /\ faults < MaxFaults
          /\ faults' = faults + 1
          /\ pc' = "except"
          /\ UNCHANGED <<temp, temp_filename>>
    /\ UNCHANGED <<entries, file, save_error, load_report, call, nextId, save_old>>
    /\ UNCHANGED edit_window

\* json.dump(entries, tf, indent=4): the objects reach the file one by one.
json_dump_some ==
    /\ pc = "write"
    /\ \E k \in 0..Len(entries) : temp' = PartialFile(entries, k)
    /\ pc' = "writing"
    /\ UNCHANGED <<entries, file, temp_filename, save_error, load_report,
                   call, nextId, faults, save_old>>
    /\ UNCHANGED edit_window

\* The rest is written and the with block closes the file, or the write fails.
json_dump_rest ==
    /\ pc = "writing"
    /\ \/ /\ temp' = WrittenFile(entries)
          /\ pc' = "move"
          /\ UNCHANGED faults
       \/ /\ faults < MaxFaults
          /\ faults' = faults + 1
          /\ pc' = "except"
          /\ UNCHANGED temp
    /\ UNCHANGED <<entries, file, temp_filename, save_error, load_report,
                   call, nextId, save_old>>
    /\ UNCHANGED edit_window

\* shutil.move(temp_filename, self.filename): a rename within one directory.
shutil_move ==
    /\ pc = "move"
    /\ \/ /\ file' = temp
          /\ temp' = NoFile
          /\ pc' = "finally"
          /\ UNCHANGED faults
       \/ /\ faults < MaxFaults
          /\ faults' = faults + 1
          /\ pc' = "except"
          /\ UNCHANGED <<file, temp>>
    /\ UNCHANGED <<entries, temp_filename, save_error, load_report,
                   call, nextId, save_old>>
    /\ UNCHANGED edit_window

\* `except Exception: pass`
save_except_silent ==
    /\ pc = "except"
    /\ pc' = "finally"
    /\ UNCHANGED <<entries, file, temp, temp_filename, save_error, load_report,
                   call, nextId, faults, save_old>>
    /\ UNCHANGED edit_window

\* An except clause that also takes the list back to what the file holds.
save_except_rollback ==
    /\ pc = "except"
    /\ save_error' = TRUE
    /\ entries' = load_entries(file, FALSE).entries
    /\ pc' = "finally"
    /\ UNCHANGED <<file, temp, temp_filename, load_report,
                   call, nextId, faults, save_old>>
    /\ UNCHANGED edit_window

\* except Exception: log_error and messagebox.showerror
save_except ==
    /\ pc = "except"
    /\ save_error' = TRUE
    /\ pc' = "finally"
    /\ UNCHANGED <<entries, file, temp, temp_filename, load_report,
                   call, nextId, faults, save_old>>
    /\ UNCHANGED edit_window

\* save_entries without the os.remove of its finally clause
RemoveTemp_never(name_set, t) == t

RemoveTemp(name_set, t) == IF name_set /\ t.exists THEN NoFile ELSE t

\* finally: if temp_filename and os.path.exists(temp_filename): os.remove
save_finally ==
    /\ pc = "finally"
    /\ temp' = RemoveTemp(temp_filename, temp)
    /\ pc' = "return"
    /\ UNCHANGED <<entries, file, temp_filename, save_error, load_report,
                   call, nextId, faults, save_old>>
    /\ UNCHANGED edit_window

\* save_entries has returned; the model method and the controller return.
HandlerReturn ==
    /\ pc = "return"
    /\ call' = [call EXCEPT !.ret = "returned"]
    /\ pc' = "done"
    /\ UNCHANGED <<entries, file, temp, temp_filename, save_error,
                   load_report, nextId, faults, save_old>>
    /\ UNCHANGED edit_window

\* The view's callback shows the outcome and ends; the event loop is idle
\* again and the locals of the call are gone.
CallbackEnd ==
    /\ pc = "done"
    /\ pc' = "idle"
    /\ call' = NoCall
    /\ temp_filename' = FALSE
    /\ save_error' = FALSE
    /\ save_old' = file
    /\ UNCHANGED <<entries, file, temp, load_report, nextId, faults>>
    /\ UNCHANGED edit_window

\* ------------------------------------------------------------------ JournalController
JournalController_add_new_entry ==
    /\ pc = "idle"
    /\ \E req \in Requests, now \in Times :
        IF strip(req.title) = <<>>
        THEN /\ call' = NewCall("add", Len(entries), req, "ValueError")
             /\ pc' = "done"
             /\ UNCHANGED <<entries, file, temp, temp_filename, save_error,
                            nextId>>
        ELSE /\ Len(entries) < MaxLen
             /\ nextId <= MaxIds
             /\ entries' = JournalModel_add_entry(entries, strip(req.title),
                                                  strip(req.content), now, uuid4)
             /\ nextId' = nextId + 1
             /\ EnterSave(NewCall("add", Len(entries), req, "running"))
             /\ UNCHANGED file
    /\ UNCHANGED <<load_report, faults, save_old>>
    /\ UNCHANGED edit_window

JournalController_edit_entry ==
    /\ pc = "idle"
    /\ \E index \in Indexes, req \in Requests, now \in Times :
        IF strip(req.title) = <<>>
        THEN /\ call' = NewCall("edit", index, req, "ValueError")
             /\ pc' = "done"
             /\ UNCHANGED <<entries, file, temp, temp_filename, save_error>>
        ELSE LET r == JournalModel_update_entry(entries, index, strip(req.title),
                                                strip(req.content), now)
             IN  IF r.ret
                 THEN /\ entries' = r.entries
                      /\ EnterSave(NewCall("edit", index, req, "running"))
                      /\ UNCHANGED file
                 ELSE /\ call' = NewCall("edit", index, req, "IndexError")
                      /\ entries' = r.entries
                      /\ pc' = "done"
                      /\ UNCHANGED <<file, temp, temp_filename, save_error>>
    /\ UNCHANGED <<load_report, nextId, faults, save_old>>
    /\ UNCHANGED edit_window

JournalController_delete_entry ==
    /\ pc = "idle"
    /\ \E index \in Indexes :
        LET r == JournalModel_delete_entry(entries, index)
        IN  IF r.ret
            THEN /\ entries' = r.entries
                 /\ EnterSave(NewCall("delete", index, NoRequest, "running"))
                 /\ UNCHANGED file
            ELSE /\ call' = NewCall("delete", index, NoRequest, "IndexError")
                 /\ entries' = r.entries
                 /\ pc' = "done"
                 /\ UNCHANGED <<file, temp, temp_filename, save_error>>
    /\ UNCHANGED <<load_report, nextId, faults, save_old>>
    /\ UNCHANGED edit_window

\* get_all_entries: `return self.model.entries`
JournalController_get_all_entries ==
    /\ pc = "idle"
    /\ call' = [op |-> "list", index |-> 0, title |-> <<>>, content |-> <<>>,
                keyword |-> <<>>, result |-> entries, ret |-> "returned",
                saves |-> call.saves, calls |-> call.calls + 1]
    /\ pc' = "done"
    /\ UNCHANGED <<entries, file, temp, temp_filename, save_error, load_report,
                   nextId, faults, save_old>>
    /\ UNCHANGED edit_window

\* search: no validation, the keyword is stripped and the list is not touched.
JournalController_search ==
    /\ pc = "idle"
    /\ \E keyword \in Keywords :
        call' = [op |-> "search", index |-> 0, title |-> <<>>, content |-> <<>>,
                 keyword |-> keyword,
                 result |-> JournalModel_search_entries(entries, strip(keyword)),
                 ret |-> "returned", saves |-> call.saves,
                 calls |-> call.calls + 1]
    /\ pc' = "done"
    /\ UNCHANGED <<entries, file, temp, temp_filename, save_error, load_report,
                   nextId, faults, save_old>>
    /\ UNCHANGED edit_window

\* ------------------------------------------------------------------ the process
\* The process dies inside save_entries: nothing of it runs any more, the
\* finally clause included, and main() is started again.  The dead call's
\* temporary file stays in the directory under a name no later call uses;
\* temp follows the file of the running save only.
Crash ==
    /\ pc \in SavePcs
    /\ faults < MaxFaults
    /\ faults' = faults + 1
    /\ pc' = "boot"
    /\ entries' = <<>>
    /\ call' = NoCall
    /\ temp' = NoFile
    /\ temp_filename' = FALSE
    /\ save_error' = FALSE
    /\ load_report' = "none"
    /\ save_old' = file
    /\ UNCHANGED <<file, nextId>>
    /\ edit_window' = NoWindow

Next ==
    \/ JournalModel_init
    \/ JournalController_add_new_entry
    \/ JournalController_edit_entry
    \/ JournalController_delete_entry
    \/ JournalController_get_all_entries
    \/ JournalController_search
    \/ NamedTemporaryFile
    \/ json_dump_some
    \/ json_dump_rest
    \/ shutil_move
    \/ save_except
    \/ save_finally
    \/ HandlerReturn
    \/ CallbackEnd
    \/ Crash

Spec == Init /\ [][Next]_vars

\* ------------------------------------------------------------------ JournalView
\* The session with the view's edit window.  The window is not modal: while
\* it is open the other windows go on adding, deleting and searching.  One
\* edit window at a time is followed.
\*
\* _open_edit_window: the position selected in the list (or handed over by
\* the search window) is checked against the list and kept in model_index,
\* and the entry at it is shown.
JournalView_open_edit_window ==
    /\ pc = "idle"
    /\ ~edit_window.open
    /\ \E model_index \in Indexes :
        /\ ~(model_index < 0 \/ model_index >= Len(entries))
        /\ edit_window' =
              [open |-> TRUE, model_index |-> model_index,
               unique_id |-> entries[model_index + 1].unique_id]
    /\ UNCHANGED <<entries, file, temp, temp_filename, save_error, load_report,
                   pc, call, nextId, faults, save_old>>

\* cancel_edit, confirmed
cancel_edit ==
    /\ pc = "idle"
    /\ edit_window.open
    /\ edit_window' = NoWindow
    /\ UNCHANGED <<entries, file, temp, temp_filename, save_error, load_report,
                   pc, call, nextId, faults, save_old>>

\* update_entry, the Save button: controller.edit_entry(model_index, ...)
update_entry ==
    /\ edit_window.open
    /\ JournalController_edit_entry
    /\ call'.index = edit_window.model_index

\* The end of update_entry: the window is destroyed when edit_entry has
\* returned, and stays when it has raised.
update_entry_end ==
    /\ pc = "done"
    /\ call.op = "edit"
    /\ pc' = "idle"
    /\ call' = NoCall
    /\ temp_filename' = FALSE
    /\ save_error' = FALSE
    /\ save_old' = file
    /\ edit_window' = IF call.ret = "returned" THEN NoWindow ELSE edit_window
    /\ UNCHANGED <<entries, file, temp, load_report, nextId, faults>>

\* The end of any other callback.
other_callback_end ==
    /\ call.op # "edit"
    /\ CallbackEnd

NextView ==
    \/ JournalModel_init
    \/ JournalController_add_new_entry
    \/ JournalController_delete_entry
    \/ JournalController_search
    \/ JournalView_open_edit_window
    \/ cancel_edit
    \/ update_entry
    \/ update_entry_end
    \/ other_callback_end
    \/ NamedTemporaryFile
    \/ json_dump_some
    \/ json_dump_rest
    \/ shutil_move
    \/ save_except
    \/ save_finally
    \/ HandlerReturn
    \/ Crash

SpecView == Init /\ [][NextView]_vars

\* ------------------------------------------------------------------ calls counted
\* The session that starts without a file, with the totals of call kept from
\* one call to the next: up to MaxCalls controller calls, the process lives.
InitCounted == Init /\ file = NoFile

CallbackEndCounted ==
    /\ pc = "done"
    /\ call.calls < MaxCalls
    /\ pc' = "idle"
    /\ call' = [NoCall EXCEPT !.saves = call.saves, !.calls = call.calls]
    /\ temp_filename' = FALSE
    /\ save_error' = FALSE
    /\ save_old' = file
    /\ UNCHANGED <<entries, file, temp, load_report, nextId, faults>>
    /\ UNCHANGED edit_window

NextCounted ==
    \/ JournalModel_init
    \/ JournalController_add_new_entry
    \/ JournalController_edit_entry
    \/ JournalController_delete_entry
    \/ JournalController_get_all_entries
    \/ JournalController_search
    \/ NamedTemporaryFile
    \/ json_dump_some
    \/ json_dump_rest
    \/ shutil_move
    \/ save_except
    \/ save_finally
    \/ HandlerReturn
    \/ CallbackEndCounted

SpecCounted == InitCounted /\ [][NextCounted]_vars

\* ------------------------------------------------------------------ storage alone
\* save_entries and load_entries called one after the other on a list E:
\* save(E), load(), save(what was loaded).  E is any list of up to MaxLen
\* entries whose five fields differ from one another and from entry to entry.
RoundTripCollections ==
    UNION { { [i \in 1..n |->
                 [unique_id |-> 10 + i, entry_number |-> i, title |-> f[i][1],
                  content |-> f[i][2], date_time |-> f[i][3]]] :
              f \in [1..n -> {<<"C", "a", "t">>, <<"a">>}
                                \X {<<>>, <<"A", "T", "d">>} \X Times] } :
            n \in 0..MaxLen }

InitRoundTrip ==
    /\ entries \in RoundTripCollections
    /\ file = NoFile
    /\ temp = NoFile
    /\ temp_filename = FALSE
    /\ save_error = FALSE
    /\ load_report = "none"
    /\ pc = "idle"
    /\ call = NoCall
    /\ nextId = 1
    /\ faults = 0
    /\ save_old = file
    /\ edit_window = NoWindow

\* storage.save_entries(entries): the first call and the third.
JournalStorage_save_entries ==
    /\ pc = "idle"
    /\ call.calls \in {0, 2}
    /\ EnterSave(NewCall("save", 0, NoRequest, "running"))
    /\ UNCHANGED <<entries, file, load_report, nextId, faults, save_old>>
    /\ UNCHANGED edit_window

\* entries = storage.load_entries(): the second call.
JournalStorage_load_entries ==
    /\ pc = "idle"
    /\ call.calls = 1
    /\ \E io_error \in BOOLEAN :
        /\ io_error => (file.exists /\ faults < MaxFaults)
        /\ entries' = load_entries(file, io_error).entries
        /\ load_report' = load_entries(file, io_error).report
        /\ faults' = IF io_error THEN faults + 1 ELSE faults
    /\ call' = NewCall("load", 0, NoRequest, "returned")
    /\ pc' = "done"
    /\ UNCHANGED <<file, temp, temp_filename, save_error, nextId, save_old>>
    /\ UNCHANGED edit_window

NextRoundTrip ==
    \/ JournalStorage_save_entries
    \/ JournalStorage_load_entries
    \/ NamedTemporaryFile
    \/ json_dump_some
    \/ json_dump_rest
    \/ shutil_move
    \/ save_except
    \/ save_finally
    \/ HandlerReturn
    \/ CallbackEndCounted

SpecRoundTrip == InitRoundTrip /\ [][NextRoundTrip]_vars

\* ------------------------------------------------------------------ load alone
\* load_entries at the start of the program on any file: none, the dump of a
\* list, a dump cut short, or one JSON object.
LoadFiles ==
    {NoFile}
    \cup { WrittenFile(es) : es \in RoundTripCollections }
    \cup UNION { { PartialFile(es, k) : k \in 0..Len(es) } :
                 es \in RoundTripCollections }
    \cup { ObjectFile(es[1]) : es \in RoundTripCollections \ {<<>>} }

InitLoad ==
    /\ entries = <<>>
    /\ file \in LoadFiles
    /\ temp = NoFile
    /\ temp_filename = FALSE
    /\ save_error = FALSE
    /\ load_report = "none"
    /\ pc = "boot"
    /\ call = NoCall
    /\ nextId = 1
    /\ faults = 0
    /\ save_old = file
    /\ edit_window = NoWindow

NextLoad == JournalModel_init

SpecLoad == InitLoad /\ [][NextLoad]_vars

\* ------------------------------------------------------------------ search alone
\* search_entries applied to lists whose texts are longer than one letter:
\* every list of up to MaxLen entries over these titles and contents.
SearchTitles == { <<"C", "a", "t">>, <<"d", "o", "g">>, <<"a">> }

SearchContents == { <<>>, <<"A", "T", "d">> }

SearchCollections ==
    UNION { { [i \in 1..n |->
                 [unique_id |-> i, entry_number |-> i, title |-> f[i][1],
                  content |-> f[i][2], date_time |-> 1]] :
              f \in [1..n -> SearchTitles \X SearchContents] } :
            n \in 0..MaxLen }

InitSearch ==
    /\ entries \in SearchCollections
    /\ file = WrittenFile(entries)
    /\ temp = NoFile
    /\ temp_filename = FALSE
    /\ save_error = FALSE
    /\ load_report = "none"
    /\ pc = "idle"
    /\ call = NoCall
    /\ nextId = Len(entries) + 1
    /\ faults = 0
    /\ save_old = file
    /\ edit_window = NoWindow

NextSearch ==
    \/ JournalController_search
    \/ CallbackEnd

SpecSearch == InitSearch /\ [][NextSearch]_vars

\* ------------------------------------------------------------------ properties
\* The file parses to exactly the list es.
Persisted(es) == file.exists /\ file.complete /\ json_load(file.text) = es

Ids(es) == [i \in 1..Len(es) |-> es[i].unique_id]

Without(s, p) == [i \in 1..(Len(s) - 1) |-> IF i < p THEN s[i] ELSE s[i + 1]]

OutOfRange(index, es) == index < 0 \/ index >= Len(es)

\* A call of the controller starts in this step (pc = "idle") and call' is it.
\* ret "running" says that the model method took the branch that mutates,
\* saves and then returns True (the new entry for add); "IndexError" that it
\* returned False; "ValueError" that the controller rejected the title.
Starts(op) == pc = "idle" /\ call'.op = op

\* C1: once a call of add, update or delete has returned (whatever its
\* position was, from an empty list or from one loaded from the file), the
\* entry at 0-based position i has entry_number i + 1, for every i in [0, N).
EntryNumbersDense ==
    pc \in {"idle", "done"} =>
        \A i \in 1..Len(entries) : entries[i].entry_number = i

\* A delete at position 0 has returned and the entry that was second, with
\* identifier 2, is now alone and numbered again.
EntryNumbersDense_witness ==
    /\ pc = "done"
    /\ call.op = "delete"
    /\ call.ret = "returned"
    /\ call.index = 0
    /\ Len(entries) = 1
    /\ entries[1].unique_id = 2

IdsDistinct(es) ==
    \A i, j \in 1..Len(es) : i # j => es[i].unique_id # es[j].unique_id

\* Every identifier in memory or in the file was drawn before: uuid4 has not
\* yet returned it again.
IdsDrawn ==
    /\ \A i \in 1..Len(entries) : entries[i].unique_id < nextId
    /\ \A i \in 1..Len(file.text) : file.text[i][1] < nextId

\* What one step does to the identifiers, position by position: nothing
\* (update, a rejected call, a step of the save), a never-drawn identifier
\* appended behind the unchanged others (add), one identifier removed and the
\* others unchanged (delete), or the list is lost with the process or read
\* back from the file.
IdStep ==
    \/ Ids(entries') = Ids(entries)
    \/ /\ Starts("add")
       /\ Len(entries') = Len(entries) + 1
       /\ SubSeq(Ids(entries'), 1, Len(entries)) = Ids(entries)
       /\ entries'[Len(entries')].unique_id >= nextId
    \/ /\ Starts("delete")
       /\ \E p \in 1..Len(entries) : Ids(entries') = Without(Ids(entries), p)
    \/ pc' = "boot" /\ entries' = <<>>
    \/ pc = "boot" /\ Ids(entries') = [i \in 1..Len(file.text) |-> file.text[i][1]]

\* C2: in every reachable state the unique_id values of the list are pairwise
\* distinct; the identifier an entry got from add is changed by no later add,
\* update or delete, and add gives a new entry an identifier no entry ever
\* had, also after that entry was deleted.
UniqueIdsKept == [](IdsDistinct(entries) /\ IdsDrawn) /\ [][IdStep]_vars

\* The entry with identifier 2 was deleted and a later add has returned: the
\* list holds the identifiers 1 and 3.
UniqueIdsKept_witness ==
    /\ pc = "done"
    /\ call.op = "add"
    /\ call.ret = "returned"
    /\ Ids(entries) = <<1, 3>>

\* C3: for a list of length N and a position p < 0 or p >= N, the model's
\* update(p, ...) and delete(p) return False (the controller raises
\* IndexError), the list in memory is left as it was and save_entries is not
\* called (the file and the temporary file are untouched, no save begins).
OutOfRangeStep ==
    (/\ Starts("edit") \/ Starts("delete")
     /\ call'.ret # "ValueError"
     /\ OutOfRange(call'.index, entries))
    => /\ call'.ret = "IndexError"
       /\ entries' = entries
       /\ pc' = "done"
       /\ file' = file
       /\ temp' = temp

OutOfRangeRejected == [][OutOfRangeStep]_vars

\* An update at position -1 of a list that has entries was refused.
OutOfRangeRejected_witness ==
    /\ pc = "done"
    /\ call.op = "edit"
    /\ call.ret = "IndexError"
    /\ call.index < 0
    /\ Len(entries) >= 1

\* C4: for a list of length N >= 1 and 0 <= p < N, delete(p) succeeds and
\* leaves N - 1 entries: the former entries but the one at p (by unique_id,
\* with their title, content and date_time), numbered 1..N-1 by position.
DeleteStep ==
    (/\ Starts("delete")
     /\ ~OutOfRange(call'.index, entries))
    => /\ call'.ret = "running"
       /\ Len(entries') = Len(entries) - 1
       /\ {entries'[i].unique_id : i \in 1..Len(entries')}
            = {entries[i].unique_id : i \in 1..Len(entries)}
                \ {entries[call'.index + 1].unique_id}
       /\ \A i \in 1..Len(entries') :
            /\ entries'[i].entry_number = i
            /\ \E j \in 1..Len(entries) :
                /\ entries[j].unique_id = entries'[i].unique_id
                /\ entries[j].title = entries'[i].title
                /\ entries[j].content = entries'[i].content
                /\ entries[j].date_time = entries'[i].date_time

\* The delete that began returns True when save_entries has returned.
DeleteReturnStep ==
    (pc = "return" /\ call.op = "delete")
    => (pc' = "boot" \/ (pc' = "done" /\ call'.ret = "returned"))

DeleteRemovesOne == [][DeleteStep /\ DeleteReturnStep]_vars

\* delete(0) on a list of two has returned: one entry is left.
DeleteRemovesOne_witness ==
    /\ pc = "done"
    /\ call.op = "delete"
    /\ call.ret = "returned"
    /\ call.index = 0
    /\ Len(entries) = 1
    /\ entries[1].entry_number = 1

\* C5: at every step of save_entries (temporary file created, partly
\* written, fully written, moved), and when the process dies at any of them,
\* the target file holds either all of what it held before the save began or
\* all of the new serialized list, never a part or a mix.
OldOrNew ==
    pc \in SavePcs => (file = save_old \/ file = WrittenFile(entries))

DeathKeepsFile == (pc \in SavePcs /\ pc' = "boot") => file' = file

AtomicReplace == []OldOrNew /\ [][DeathKeepsFile]_vars

\* The temporary file holds a part of a list that the target does not hold
\* yet: the target still has its old content.
AtomicReplace_witness ==
    /\ pc = "writing"
    /\ temp.exists
    /\ ~temp.complete
    /\ Len(temp.text) >= 1
    /\ file = save_old
    /\ file # WrittenFile(entries)

\* C6: when save_entries fails (creating the temporary file, writing it, or
\* moving it) the failure is reported and the target file is as it was before;
\* when save_entries returns, failed or not, no temporary file of the call
\* is left.
SaveCleansUp ==
    pc = "return" =>
        /\ ~temp.exists
        /\ save_error => file = save_old
        /\ ~Persisted(entries) => save_error

\* A save that failed after its temporary file existed has returned.
SaveCleansUp_witness ==
    /\ pc = "return"
    /\ save_error
    /\ temp_filename
    /\ file = save_old
    /\ ~Persisted(entries)

\* A mutating call has returned.
Mutated ==
    pc = "done" /\ call.op \in {"add", "edit", "delete"}
        /\ call.ret = "returned"

\* C7, as stated: whenever add, update or delete reports success, the file
\* holds the list that is in memory at the return (a persist that did not
\* take effect makes the call report failure).
SuccessMeansPersisted == Mutated => Persisted(entries)

\* C7, amended: when add, update or delete reports success, either the file
\* holds the list that is in memory, or save_entries failed, reported it
\* (log and dialog) and left the file as it was before the call; the call
\* reports success in both cases.
SuccessPersistedOrReported ==
    Mutated =>
        IF save_error THEN file = save_old ELSE Persisted(entries)

\* A call has reported success although its save failed: the file does not
\* hold the list in memory.
SuccessPersistedOrReported_witness ==
    /\ pc = "done"
    /\ call.ret = "returned"
    /\ save_error
    /\ ~Persisted(entries)

AllWhitespace(t) == \A i \in 1..Len(t) : t[i] \in Whitespace

\* C8: add_new_entry and edit_entry with a title that is empty once its
\* whitespace is trimmed raise ValueError (EmptyTitle), leave the list in
\* memory as it was and do not call save_entries: the model is not called.
EmptyTitleStep ==
    (/\ Starts("add") \/ Starts("edit")
     /\ AllWhitespace(call'.title))
    => /\ call'.ret = "ValueError"
       /\ entries' = entries
       /\ pc' = "done"
       /\ file' = file
       /\ temp' = temp

EmptyTitleRejected == [][EmptyTitleStep]_vars

\* An edit of an existing entry with a title of one blank was refused.
EmptyTitleRejected_witness ==
    /\ pc = "done"
    /\ call.op = "edit"
    /\ call.ret = "ValueError"
    /\ call.title = <<" ">>
    /\ ~OutOfRange(call.index, entries)

\* The first add of a session whose load reported a corrupt file has
\* returned the new entry.
FirstAddAfterCorruption ==
    /\ load_report = "corrupted"
    /\ pc = "done"
    /\ call.op = "add"
    /\ call.ret = "returned"
    /\ call.index = 0

\* C9, as stated: when the file exists but does not parse, load returns the
\* empty list and reports the corruption, the model starts empty, and a later
\* add succeeds, returns an entry numbered 1 and persists a valid file that
\* holds exactly the one-entry list.
AddAfterCorruptionPersists ==
    FirstAddAfterCorruption =>
        /\ Len(entries) = 1
        /\ entries[1].entry_number = 1
        /\ Persisted(entries)

\* load_entries on a file that exists and does not parse, when reading it
\* meets no I/O failure.
CorruptLoadStep ==
    (pc = "boot" /\ pc' = "idle" /\ file.exists /\ ~file.complete
     /\ faults' = faults)
    => /\ entries' = <<>>
       /\ load_report' = "corrupted"
       /\ file' = file

\* C9, amended: as stated, but the add persists the one-entry list unless
\* its save fails; when the save fails (and is reported) the add still
\* returns the entry numbered 1 and the file is left as it was.
AddAfterCorruptionResult ==
    FirstAddAfterCorruption =>
        /\ Len(entries) = 1
        /\ entries[1].entry_number = 1
        /\ IF save_error THEN file = save_old ELSE Persisted(entries)

AddAfterCorruption == [][CorruptLoadStep]_vars /\ []AddAfterCorruptionResult

\* The add after a corrupt load has returned and its save went through.
AddAfterCorruption_witness ==
    /\ FirstAddAfterCorruption
    /\ ~save_error
    /\ Persisted(entries)
    /\ file # CorruptFile

\* C10: after load has reported a corrupt file, the file keeps its content
\* for the rest of the session, whatever is added, updated or deleted.
CorruptFileStep ==
    (load_report = "corrupted" /\ load_report' = "corrupted") => file' = file

CorruptFileLeftOnDisk == [][CorruptFileStep]_vars

\* ------------------------------------------------------------------ search
\* c and d are the same letter up to case.
SameLetter(c, d) ==
    c = d \/ <<c, d>> \in CasePairs \/ <<d, c>> \in CasePairs

\* k occurs in s at some offset, letter for letter up to case.
OccursIn(k, s) ==
    \E o \in 0..(Len(s) - Len(k)) :
        \A j \in 1..Len(k) : SameLetter(s[o + j], k[j])

\* The keyword the controller hands to search_entries.
Searched == strip(call.keyword)

\* C11: search(keyword) returns exactly the pairs (i, entry_i) of the
\* entries whose title or content holds the keyword as a substring up to
\* case, i being the 0-based position in the list, in increasing position
\* order; and the search changes neither the list nor the file.
SearchResult ==
    call.op = "search" =>
        /\ \A i \in 0..(Len(entries) - 1) :
            (OccursIn(Searched, entries[i + 1].title)
                \/ OccursIn(Searched, entries[i + 1].content))
            <=> (\E j \in 1..Len(call.result) :
                    call.result[j] = <<i, entries[i + 1]>>)
        /\ \A j \in 1..Len(call.result) :
            /\ call.result[j][1] \in 0..(Len(entries) - 1)
            /\ call.result[j][2] = entries[call.result[j][1] + 1]
        /\ \A j, k \in 1..Len(call.result) :
            j < k => call.result[j][1] < call.result[k][1]

SearchFrame ==
    Starts("search") => (entries' = entries /\ file' = file)

SearchFindsMatches == []SearchResult /\ [][SearchFrame]_vars

\* search("cAt") over "Cat" and "dog" has returned the first entry alone;
\* and a search has returned the second entry alone, at position 1.
SearchFindsMatches_witness ==
    /\ call.op = "search"
    /\ Searched = <<"c", "A", "t">>
    /\ Len(entries) = 2
    /\ entries[1].title = <<"C", "a", "t">>
    /\ entries[2].title = <<"d", "o", "g">>
    /\ entries[2].content = <<>>
    /\ Len(call.result) = 1
    /\ call.result[1] = <<0, entries[1]>>

\* ------------------------------------------------------------------ saves
\* The call that starts is an add or an update with a title that is not
\* empty once trimmed, or an update or a delete at a position of the list.
MutatesNow ==
    /\ call'.op \in {"add", "edit", "delete"}
    /\ call'.op \in {"add", "edit"} => ~AllWhitespace(call'.title)
    /\ call'.op \in {"edit", "delete"} => ~OutOfRange(call'.index, entries)

\* C12: save_entries is called exactly once by each add, each update and
\* each delete at a valid position, after the list was changed, and never by
\* search, get_all_entries, an out-of-range update or delete, or a call
\* rejected for its empty title.
SaveCountStep ==
    /\ (pc = "idle" /\ pc' # "idle")
        => /\ call'.calls = call.calls + 1
           /\ call'.saves = call.saves + (IF MutatesNow THEN 1 ELSE 0)
           /\ MutatesNow
               => /\ pc' = "create"
                  /\ call'.op = "add" => Len(entries') = Len(entries) + 1
                  /\ call'.op = "delete" => Len(entries') = Len(entries) - 1
                  /\ call'.op = "edit"
                      => entries'[call'.index + 1].title = strip(call'.title)
           /\ ~MutatesNow => (pc' = "done" /\ entries' = entries)
    /\ pc # "idle"
        => (call'.saves = call.saves /\ call'.calls = call.calls
              /\ entries' = entries)

\* What save_entries has written when it moves the file is the whole list.
SavesWholeList == pc = "move" => temp = WrittenFile(entries)

\* add, add, delete(0) from the empty list: the delete has returned.
AddAddDelete ==
    /\ pc = "done"
    /\ call.calls = 3
    /\ call.op = "delete"
    /\ call.index = 0
    /\ call.ret = "returned"
    /\ nextId = 3

\* C12, its example: after add, add, delete(0) the list holds the second
\* entry alone, numbered 1, and save_entries was called 3 times.
AddAddDeleteResult ==
    AddAddDelete =>
        /\ Len(entries) = 1
        /\ entries[1].unique_id = 2
        /\ entries[1].entry_number = 1
        /\ call.saves = 3

SaveOncePerMutation ==
    [][SaveCountStep]_vars /\ [](SavesWholeList /\ AddAddDeleteResult)

\* add(" a", " x"), add("B\n", ""), delete(0) have run: "B" is left.
SaveOncePerMutation_witness ==
    /\ AddAddDelete
    /\ call.saves = 3
    /\ Len(entries) = 1
    /\ entries[1].title = <<"B">>
    /\ entries[1].content = <<>>
    /\ entries[1].entry_number = 1

\* ------------------------------------------------------------------ round trip
\* C13, first half: when nothing fails, load() after save(E) returns a list
\* of the length of E whose entries have, position by position, the five
\* field values of E, and reports nothing.
SaveThenLoad ==
    (pc = "idle" /\ call'.op = "load" /\ faults' = 0)
        => /\ Len(entries') = Len(entries)
           /\ \A i \in 1..Len(entries) :
               /\ entries'[i].unique_id = entries[i].unique_id
               /\ entries'[i].entry_number = entries[i].entry_number
               /\ entries'[i].title = entries[i].title
               /\ entries'[i].content = entries[i].content
               /\ entries'[i].date_time = entries[i].date_time
           /\ load_report' = "none"

\* C13, second half: when nothing fails, saving what load() returned leaves
\* the file with the content it had.
LoadThenSave ==
    (pc = "done" /\ call.op = "save" /\ call.calls = 3 /\ faults = 0)
        => (file = save_old /\ file.exists)

IsTrimOf(t, raw) ==
    \E i, j \in 0..Len(raw) :
        /\ i + j <= Len(raw)
        /\ t = SubSeq(raw, i + 1, Len(raw) - j)
        /\ \A k \in 1..i : raw[k] \in Whitespace
        /\ \A k \in (Len(raw) - j + 1)..Len(raw) : raw[k] \in Whitespace
        /\ t # <<>> => (t[1] \notin Whitespace /\ t[Len(t)] \notin Whitespace)

\* C14: edit_entry(p, ...) with a title that is not empty once trimmed
\* raises IndexError exactly when p is outside [0, N) and otherwise stores
\* the trimmed title and content at p and returns nothing; with a title that
\* is empty once trimmed it raises ValueError whatever p is;
\* delete_entry(p) raises IndexError exactly when p is outside [0, N);
\* and every call that raises leaves the list as it was.
EditStep ==
    Starts("edit") =>
        IF AllWhitespace(call'.title)
        THEN call'.ret = "ValueError" /\ entries' = entries
        ELSE IF OutOfRange(call'.index, entries)
        THEN call'.ret = "IndexError" /\ entries' = entries
        ELSE /\ call'.ret = "running"
             /\ Len(entries') = Len(entries)
             /\ IsTrimOf(entries'[call'.index + 1].title, call'.title)
             /\ IsTrimOf(entries'[call'.index + 1].content, call'.content)

ControllerDeleteStep ==
    Starts("delete") =>
        IF OutOfRange(call'.index, entries)
        THEN call'.ret = "IndexError" /\ entries' = entries
        ELSE call'.ret = "running"

\* A call that did not raise returns, and nothing else ends a call.
ReturnStep ==
    (call.op \in {"edit", "delete"} /\ pc # "done" /\ pc' = "done")
        => (call.ret = "running" /\ call'.ret = "returned"
              /\ entries' = entries)

EditDeleteOutcome == [][EditStep /\ ControllerDeleteStep /\ ReturnStep]_vars

\* edit_entry(1, " a", " x") on a list of two has returned: the second entry
\* holds "a" and "x".
EditDeleteOutcome_witness ==
    /\ pc = "done"
    /\ call.op = "edit"
    /\ call.ret = "returned"
    /\ call.index = 1
    /\ call.title = <<" ", "a">>
    /\ call.content = <<" ", "x">>
    /\ Len(entries) = 2
    /\ entries[2].title = <<"a">>
    /\ entries[2].content = <<"x">>

\* ------------------------------------------------------------------ load
\* C15: load returns the empty list without a report when there is no file,
\* and reports a failure and returns the empty list whenever the file does
\* not hold a list of records (text that does not parse, or that parses to
\* something else than a list) and whenever reading it fails.
LoadReportsBadContent ==
    pc = "idle" =>
        /\ ~file.exists => (load_report = "none" /\ entries = <<>>)
        /\ (file.exists /\ (faults > 0 \/ ~file.complete \/ ~file.array))
            => (load_report # "none" /\ entries = <<>>)

\* ------------------------------------------------------------------ empty keyword
\* C16: on a list that is not empty, a search whose keyword is empty or
\* whitespace only returns every entry paired with its position, in list
\* order: never nothing and never a part of the list, and so the same result
\* every time while the list is the same.
EmptyKeywordFindsAll ==
    (call.op = "search" /\ AllWhitespace(call.keyword) /\ Len(entries) >= 1)
        => /\ Len(call.result) = Len(entries)
           /\ \A i \in 1..Len(entries) :
               call.result[i] = <<i - 1, entries[i]>>

\* search(" ") on a list of two has returned both entries.
EmptyKeywordFindsAll_witness ==
    /\ pc = "done"
    /\ call.op = "search"
    /\ call.keyword = <<" ">>
    /\ Len(entries) = 2
    /\ Len(call.result) = 2

\* ------------------------------------------------------------------ update frame
\* C17: an update at a valid position p succeeds and changes nothing but
\* the title, content and date_time of the entry at p: that entry keeps its
\* unique_id and entry_number, the list keeps its length, and every other
\* entry keeps all its fields.
UpdateFrameStep ==
    (Starts("edit") /\ ~AllWhitespace(call'.title)
        /\ ~OutOfRange(call'.index, entries))
    => /\ call'.ret = "running"
       /\ Len(entries') = Len(entries)
       /\ \A i \in 1..Len(entries) :
           IF i = call'.index + 1
           THEN /\ entries'[i].unique_id = entries[i].unique_id
                /\ entries'[i].entry_number = entries[i].entry_number
                /\ DOMAIN entries'[i] = DOMAIN entries[i]
           ELSE entries'[i] = entries[i]

\* Until it has returned, the update changes nothing more.
UpdateReturnStep ==
    (call.op = "edit" /\ call.ret = "running" /\ pc' # "boot")
        => /\ entries' = entries
           /\ call'.ret \in {"running", "returned"}

UpdateChangesOneEntry == [][UpdateFrameStep /\ UpdateReturnStep]_vars

\* update(0, ...) on a list of two has returned: the first entry has a new
\* title and time and its own identifier, the second one is as it was added.
UpdateChangesOneEntry_witness ==
    /\ pc = "done"
    /\ call.op = "edit"
    /\ call.ret = "returned"
    /\ call.index = 0
    /\ Len(entries) = 2
    /\ entries[1].title = <<"B">>
    /\ entries[1].date_time = 2
    /\ entries[1].unique_id = 1
    /\ entries[1].entry_number = 1
    /\ entries[2] = [unique_id |-> 2, entry_number |-> 2, title |-> <<"a">>,
                     content |-> <<"x">>, date_time |-> 1]

\* ------------------------------------------------------------------ order
\* C18: the list is in the order of the adds.  An add puts the new entry at
\* the last position with entry_number = the former length + 1 and leaves
\* the entries before it as they were; an update moves nothing; a delete
\* keeps the order of the entries that stay.
OrderStep ==
    /\ (Starts("add") /\ call'.ret = "running")
        => /\ Len(entries') = Len(entries) + 1
           /\ entries'[Len(entries')].entry_number = Len(entries) + 1
           /\ entries'[Len(entries')].unique_id \notin
                  { entries[i].unique_id : i \in 1..Len(entries) }
           /\ \A i \in 1..Len(entries) : entries'[i] = entries[i]
    /\ Starts("edit") => Ids(entries') = Ids(entries)
    /\ (Starts("delete") /\ call'.ret = "running")
        => Ids(entries') = Without(Ids(entries), call'.index + 1)

\* Identifiers are drawn in the order of the adds (uuid4 is the count of the
\* draws), so of two entries the one added earlier has the smaller one: it
\* is at the lower position.
EarlierIsLower ==
    \A i, j \in 1..Len(entries) :
        entries[i].unique_id < entries[j].unique_id => i < j

NoRollbackStep ==
    (pc \notin {"idle", "boot"} /\ pc' # "boot") => entries' = entries

\* C19: when the save inside add, update or delete fails, the change stays
\* in the list while the file keeps the content it had, so that after a
\* failed add the file does not hold the list; and when the save of a
\* mutating call goes through, the file holds the whole list, the changes
\* of earlier calls whose saves failed included.
FailedSaveResult ==
    Mutated =>
        IF save_error
        THEN /\ file = save_old
             /\ call.op = "add" => ~Persisted(entries)
        ELSE Persisted(entries)

StaleSaveStep ==
    (edit_window.open /\ Starts("edit") /\ call'.ret = "running")
        => entries[call'.index + 1].unique_id = edit_window.unique_id

StaleSaveHitsShownEntry == [][StaleSaveStep]_vars

====
